---- MODULE Spec2Model ----
(***************************************************************************)
(* Work-item hierarchy retrieval and iteration-date resolution pipeline of *)
(* the timeline extension: src/src/services/azure-devops-service.ts and    *)
(* its consumer src/src/hooks/useTimelineData.ts.                          *)
(*                                                                         *)
(* Strings that the code inspects character by character (iteration paths, *)
(* project names) are sequences of one-character strings.  Dates are day   *)
(* numbers; 0 stands for a missing (falsy) date attribute.                 *)
(***************************************************************************)
EXTENDS Integers, Sequences, FiniteSets, TLC

VARIABLES
    \* ---- path lookup harness (normalizeIterationPath / findIterationDates)
    lkPath,        \* iterationPath argument
    lkProject,     \* projectName argument
    lkMap,         \* iterationMap argument: function key -> dates record
    lkResult,      \* value returned by findIterationDates
    lkPc,          \* "input" | "looked"
    \* ---- one fetch cycle of fetchWorkItemsLocal and the backend it talks to
    backend,       \* [items, links, tree]: work items, link rows, classification tree
    now,           \* new Date(): [year, month]
    rootLevel,     \* argument rootLevel
    callerFilter,            \* argument iterationFilter
    effectiveFilter,   \* local effectiveIterationFilter
    relationRows,          \* local workItemRelations
    detailsMap,         \* local workItemDetailsMap
    iterationIndex,     \* local iterationMap of fetchWorkItemsLocal
    settled,       \* how the returned promise settled
    calls,         \* the backend calls issued so far, in order
    faults,        \* the calls that did not get a good answer: {[call, kind]}
    pc,            \* the await the cycle is suspended at
    history,       \* the cycles run before this one: [now, faults, settled]
    \* ---- useTimelineData
    hkEnv,         \* "dev" | "devUnconfigured" | "extension"
    hkRootType,    \* the rootWorkItemType of the latest render
    hkCycles,      \* the effect runs: [rootType, attempt, status]
    hkData,        \* state data
    hkLoading,     \* state loading
    hkError,       \* state error ("null" or a message)
    hkDataFrom,    \* the cycle whose setData was the last one (0: none yet)
    \* ---- tree harness (buildTreeFromLinks ... groupByAreaPath on drawn inputs)
    trRelations,   \* workItemRelations
    trDetails,     \* workItemDetails: Map id -> fields
    trIterationMap,\* iterationMap
    trRootType,    \* rootWorkItemType
    trFilter,      \* iterationFilter
    trNodeMap,     \* result of buildTreeFromLinks
    trRootNodes,   \* result of findRootNodes
    trProgress,    \* calculateNodeProgress of every node
    trResult,      \* what fetchWorkItemsLocal settles with
    trPc,          \* "input" | "assembled"
    \* ---- quarter harness (getQuarterRange / calculateTimelineRange)
    qrDate,        \* the date new Date() gives: [year, month]
    qrOffset,      \* argument quarterOffset of calculateTimelineRange
    qrRange,       \* value returned by getQuarterRange
    qrTimeline     \* value returned by calculateTimelineRange

lkVars == <<lkPath, lkProject, lkMap, lkResult, lkPc>>
fetchVars == <<backend, now, rootLevel, callerFilter, effectiveFilter,
               relationRows, detailsMap, iterationIndex, settled, calls, faults,
               pc, history>>
trVars == <<trRelations, trDetails, trIterationMap, trRootType, trFilter,
            trNodeMap, trRootNodes, trProgress, trResult, trPc>>
hkVars == <<hkEnv, hkRootType, hkCycles, hkData, hkLoading, hkError, hkDataFrom>>
qrVars == <<qrDate, qrOffset, qrRange, qrTimeline>>

\* what the steps of one part of the model leave alone
notLk == <<fetchVars, trVars, hkVars, qrVars>>
notFetch == <<lkVars, trVars, hkVars, qrVars>>
notTr == <<lkVars, fetchVars, hkVars, qrVars>>
notHk == <<lkVars, fetchVars, trVars, qrVars>>
notQr == <<lkVars, fetchVars, trVars, hkVars>>

(***************************************************************************)
(* Bounds                                                                  *)
(***************************************************************************)
MaxPathLen == 3      \* longest iteration path drawn for the lookup harness
MaxProjectLen == 2   \* longest project name drawn for the lookup harness
MaxRels == 2         \* longest relation list drawn for the tree harness
MaxCycles == 3       \* fetch cycles started by one mounted useTimelineData
FirstYear == 2023    \* first year of the reference dates of the quarter harness
YearSpan == 3        \* number of years of reference dates (2024 is a leap year)
MaxOffset == 2       \* largest quarterOffset, forwards and backwards

(***************************************************************************)
(* Strings                                                                 *)
(***************************************************************************)
BS == "\\"                       \* the path separator '\\'
NameChars == {"p", "s"}          \* characters a name is made of
PathChars == NameChars \cup {BS}

SeqsUpTo(S, n) == UNION {[1..k -> S] : k \in 0..n}

\* String.prototype.startsWith
StartsWith(s, prefix) ==
    /\ Len(s) >= Len(prefix)
    /\ SubSeq(s, 1, Len(prefix)) = prefix

\* String.prototype.substring(n)
Substring(s, n) == SubSeq(s, n + 1, Len(s))

\* the template `${a}\\${b}`
JoinPath(a, b) == a \o <<BS>> \o b

\* the value of a lookup that found nothing
Undefined == [undefined |-> TRUE]

(***************************************************************************)
(* normalizeIterationPath, findIterationDates                              *)
(***************************************************************************)
normalizeIterationPath(iterationPath, projectName) ==
    <<iterationPath>>
    \o (IF ~StartsWith(iterationPath, projectName)
        THEN <<JoinPath(projectName, iterationPath)>> ELSE <<>>)
    \o (IF StartsWith(iterationPath, projectName \o <<BS>>)
        THEN <<Substring(iterationPath, Len(projectName) + 1)>> ELSE <<>>)

findIterationDates(iterationPath, projectName, iterationMap) ==
    LET variations == normalizeIterationPath(iterationPath, projectName)
        hits == {i \in 1..Len(variations) : variations[i] \in DOMAIN iterationMap}
    IN  IF hits = {} THEN Undefined
        ELSE iterationMap[variations[CHOOSE i \in hits : \A j \in hits : i <= j]]

(***************************************************************************)
(* Lookup harness: the inputs of findIterationDates are drawn from bounded *)
(* sets and the function is applied once.                                  *)
(***************************************************************************)
\* the three spellings of a path under which a record may be registered
Spellings(p, o) ==
    {p, JoinPath(o, p)}
    \cup (IF StartsWith(p, o \o <<BS>>) THEN {Substring(p, Len(o) + 1)} ELSE {})

DecoyKey == <<"s", BS, BS, "s">>
SampleDates == [startDate |-> 1, finishDate |-> 2]

LkInit ==
    /\ lkPath \in SeqsUpTo(PathChars, MaxPathLen)
    /\ lkProject \in SeqsUpTo(NameChars, MaxProjectLen) \ {<<>>}
    /\ \E keys \in SUBSET (Spellings(lkPath, lkProject) \cup {DecoyKey}) :
           lkMap = [k \in keys |-> SampleDates]
    /\ lkResult = Undefined
    /\ lkPc = "input"

Lookup ==
    /\ lkPc = "input"
    /\ lkResult' = findIterationDates(lkPath, lkProject, lkMap)
    /\ lkPc' = "looked"
    /\ UNCHANGED <<lkPath, lkProject, lkMap>>
    /\ UNCHANGED notLk

(***************************************************************************)
(* Work item types and states                                              *)
(***************************************************************************)
getChildWorkItemType(parentType) ==
    CASE parentType = "Epic" -> "Feature"
      [] parentType = "Feature" -> "User Story"
      [] parentType = "User Story" -> "Task"
      [] OTHER -> "null"

getCompletedStates(workItemType) ==
    CASE workItemType = "Epic" -> {"Done", "Closed"}
      [] workItemType = "Feature" -> {"Done", "Closed"}
      [] workItemType = "User Story" -> {"Done", "Closed", "Resolved"}
      [] workItemType = "Task" -> {"Done", "Closed"}
      [] workItemType = "Bug" -> {"Done", "Closed", "Resolved"}
      [] OTHER -> {"Done", "Closed"}

\* childType.toLowerCase().replace(' ', '') + 'Count'
CountKey(childType) ==
    CASE childType = "Feature" -> "featureCount"
      [] childType = "User Story" -> "userstoryCount"
      [] childType = "Task" -> "taskCount"
      [] OTHER -> ""

\* 'completed' + childType.replace(' ', '') + 'Count'
CompletedKey(childType) ==
    CASE childType = "Feature" -> "completedFeatureCount"
      [] childType = "User Story" -> "completedUserStoryCount"
      [] childType = "Task" -> "completedTaskCount"
      [] OTHER -> ""

(***************************************************************************)
(* buildTreeFromLinks.  A relation is [source, target]; 0 stands for a     *)
(* missing endpoint (relation.source / relation.target falsy).  A Map is a *)
(* record [order, at]: the keys in insertion order and the value per key.  *)
(* node.children[i] is the node object nodeMap.at[node.childIds[i]].       *)
(***************************************************************************)
Range(s) == {s[i] : i \in 1..Len(s)}

NewNode(id, wi) ==
    [id |-> id,
     state |-> wi.state,
     workItemType |-> wi.workItemType,
     iterationPath |-> wi.iterationPath,
     areaPath |-> wi.areaPath,
     childIds |-> <<>>]

\* mutant: a relation of a node to itself makes the node its own child
MakesChildAlsoOfItself(at, relation) ==
    /\ relation.source # 0
    /\ relation.target # 0
    /\ relation.source \in DOMAIN at
    /\ relation.target \in DOMAIN at

\* lines 315-322: the relations that add a child
MakesChild(at, relation) ==
    /\ relation.source # 0
    /\ relation.target # 0
    /\ relation.source \in DOMAIN at
    /\ relation.target \in DOMAIN at
    /\ relation.source # relation.target

RECURSIVE LinkRelations(_, _, _)
LinkRelations(at, workItemRelations, i) ==
    IF i > Len(workItemRelations) THEN at
    ELSE LET relation == workItemRelations[i]
             parentId == relation.source
             childId == relation.target
             linked ==
                 IF MakesChild(at, relation)
                 THEN [at EXCEPT ![parentId].childIds = Append(@, childId)]
                 ELSE at
         IN  LinkRelations(linked, workItemRelations, i + 1)

buildTreeFromLinks(workItemRelations, workItemDetails) ==
    [order |-> workItemDetails.order,
     at |-> LinkRelations(
                [id \in Range(workItemDetails.order) |->
                    NewNode(id, workItemDetails.at[id])],
                workItemRelations, 1)]

(***************************************************************************)
(* findRootNodes.  A filter is a record; hasFilter = FALSE stands for an   *)
(* undefined filter, startDate/endDate = 0 for an absent date.             *)
(***************************************************************************)
NoFilter ==
    [hasFilter |-> FALSE, iterationPaths |-> {}, useCurrentIterationContext |-> FALSE,
     startDate |-> 0, endDate |-> 0, requireIteration |-> "unset"]

AllChildIds(nodeMap) ==
    UNION {Range(nodeMap.at[id].childIds) : id \in DOMAIN nodeMap.at}

\* mutant: every filter makes the roots need a dated iteration
PassesDateFilterOfAnyFilter(node, iterationMap, projectName, iterationFilter) ==
    IF iterationFilter.hasFilter
    THEN LET iterationDates ==
                 findIterationDates(node.iterationPath, projectName, iterationMap)
         IN  /\ iterationDates # Undefined
             /\ ~(iterationFilter.startDate # 0
                  /\ iterationDates.finishDate < iterationFilter.startDate)
             /\ ~(iterationFilter.endDate # 0
                  /\ iterationDates.startDate > iterationFilter.endDate)
    ELSE TRUE

\* mutant: an iteration that only touches the range is outside it
PassesDateFilterExclusive(node, iterationMap, projectName, iterationFilter) ==
    IF iterationFilter.hasFilter
       /\ (iterationFilter.startDate # 0 \/ iterationFilter.endDate # 0)
    THEN LET iterationDates ==
                 findIterationDates(node.iterationPath, projectName, iterationMap)
         IN  /\ iterationDates # Undefined
             /\ ~(iterationFilter.startDate # 0
                  /\ iterationDates.finishDate <= iterationFilter.startDate)
             /\ ~(iterationFilter.endDate # 0
                  /\ iterationDates.startDate >= iterationFilter.endDate)
    ELSE TRUE

PassesDateFilter(node, iterationMap, projectName, iterationFilter) ==
    IF iterationFilter.hasFilter
       /\ (iterationFilter.startDate # 0 \/ iterationFilter.endDate # 0)
    THEN LET iterationDates ==
                 findIterationDates(node.iterationPath, projectName, iterationMap)
         IN  /\ iterationDates # Undefined
             /\ ~(iterationFilter.startDate # 0
                  /\ iterationDates.finishDate < iterationFilter.startDate)
             /\ ~(iterationFilter.endDate # 0
                  /\ iterationDates.startDate > iterationFilter.endDate)
    ELSE TRUE

\* mutant: a root is any node of the root type, child or not
IsRootNodeByTypeOnly(nodeMap, id, rootWorkItemType) ==
    nodeMap.at[id].workItemType = rootWorkItemType

IsRootNode(nodeMap, id, rootWorkItemType) ==
    /\ id \notin AllChildIds(nodeMap)
    /\ nodeMap.at[id].workItemType = rootWorkItemType

findRootNodes(nodeMap, rootWorkItemType, iterationMap, projectName, iterationFilter) ==
    SelectSeq(nodeMap.order,
              LAMBDA id :
                  /\ IsRootNode(nodeMap, id, rootWorkItemType)
                  /\ PassesDateFilter(nodeMap.at[id], iterationMap, projectName,
                                      iterationFilter))

(***************************************************************************)
(* calculateNodeProgress                                                   *)
(***************************************************************************)
CompletedChildren(nodeMap, node) ==
    {i \in 1..Len(node.childIds) :
        nodeMap.at[node.childIds[i]].state
            \in getCompletedStates(nodeMap.at[node.childIds[i]].workItemType)}

\* mutant: the children are judged by the completed states of the parent's type
calculateNodeProgressByParentType(nodeMap, node) ==
    IF Len(node.childIds) = 0
    THEN [total |-> 1,
          completed |-> IF node.state \in getCompletedStates(node.workItemType)
                        THEN 1 ELSE 0]
    ELSE [total |-> Len(node.childIds),
          completed |-> Cardinality({i \in 1..Len(node.childIds) :
                            nodeMap.at[node.childIds[i]].state
                                \in getCompletedStates(node.workItemType)})]

calculateNodeProgress(nodeMap, node) ==
    IF Len(node.childIds) = 0
    THEN [total |-> 1,
          completed |-> IF node.state \in getCompletedStates(node.workItemType)
                        THEN 1 ELSE 0]
    ELSE [total |-> Len(node.childIds),
          completed |-> Cardinality(CompletedChildren(nodeMap, node))]

(***************************************************************************)
(* convertNodeToWorkItem.  The recursion follows node.children; a cycle of *)
(* children never ends it, and the call stack overflows (RangeError).  A   *)
(* chain of more calls than there are nodes revisits a node, so the stack  *)
(* budget of the model is the number of nodes.                             *)
(***************************************************************************)
Null == [null |-> TRUE]
StackOverflow == [rangeError |-> TRUE]

RECURSIVE convertNode(_, _, _, _, _)
convertNode(nodeMap, id, iterationMap, projectName, stack) ==
    IF stack = 0 THEN StackOverflow
    ELSE
    LET node == nodeMap.at[id]
        iterationDates == findIterationDates(node.iterationPath, projectName, iterationMap)
    IN  IF iterationDates = Undefined THEN Null
        ELSE
        LET progress == calculateNodeProgress(nodeMap, node)
            childType == getChildWorkItemType(node.workItemType)
            converted == [i \in 1..Len(node.childIds) |->
                             convertNode(nodeMap, node.childIds[i], iterationMap,
                                         projectName, stack - 1)]
        IN  IF \E i \in 1..Len(converted) : converted[i] = StackOverflow
            THEN StackOverflow
            ELSE [id |-> id,
                  state |-> node.state,
                  workItemType |-> node.workItemType,
                  iterationStart |-> iterationDates.startDate,
                  iterationEnd |-> iterationDates.finishDate,
                  countKey |-> CountKey(childType),
                  count |-> IF childType # "null" THEN progress.total ELSE 0,
                  completedKey |-> CompletedKey(childType),
                  completedCount |-> IF childType # "null" THEN progress.completed ELSE 0,
                  children |-> SelectSeq(converted, LAMBDA w : w # Null)]

\* mutant: a root whose iteration does not resolve is emitted without dates
convertNodeToWorkItemDateless(nodeMap, id, iterationMap, projectName) ==
    LET workItem == convertNode(nodeMap, id, iterationMap, projectName,
                                Cardinality(DOMAIN nodeMap.at))
    IN  IF workItem # Null THEN workItem
        ELSE [id |-> id,
              state |-> nodeMap.at[id].state,
              workItemType |-> nodeMap.at[id].workItemType,
              iterationStart |-> 0,
              iterationEnd |-> 0,
              countKey |-> "", count |-> 0,
              completedKey |-> "", completedCount |-> 0,
              children |-> <<>>]

\* mutant: a converted item is emitted without its children
convertNodeToWorkItemChildless(nodeMap, id, iterationMap, projectName) ==
    LET workItem == convertNode(nodeMap, id, iterationMap, projectName,
                                Cardinality(DOMAIN nodeMap.at))
    IN  IF workItem \in {Null, StackOverflow} THEN workItem
        ELSE [workItem EXCEPT !.children = <<>>]

convertNodeToWorkItem(nodeMap, id, iterationMap, projectName) ==
    convertNode(nodeMap, id, iterationMap, projectName, Cardinality(DOMAIN nodeMap.at))

(***************************************************************************)
(* Value stream grouping and the assembly that ends fetchWorkItemsLocal    *)
(***************************************************************************)
AlphaNum == {"p", "s", "a", "b"}     \* the characters matching [a-zA-Z0-9]

\* name.replace(/[^a-zA-Z0-9]/g, '-')
ValueStreamId(name) ==
    [i \in 1..Len(name) |-> IF name[i] \in AlphaNum THEN name[i] ELSE "-"]

\* mutant: the whole area path is the name
ValueStreamNameWhole(name) == name

\* name.split('\\').pop() || name
ValueStreamName(name) ==
    LET seps == {i \in 1..Len(name) : name[i] = BS}
        last == IF seps = {} THEN 0 ELSE CHOOSE i \in seps : \A j \in seps : j <= i
        segment == SubSeq(name, last + 1, Len(name))
    IN  IF segment = <<>> THEN name ELSE segment

\* valueStreamMap after the roots rootNodes[1..i] have been converted and pushed
RECURSIVE PushRoots(_, _, _, _)
PushRoots(nodeMap, rootNodes, workItems, i) ==
    IF i = 0 THEN [order |-> <<>>, at |-> <<>>]
    ELSE LET before == PushRoots(nodeMap, rootNodes, workItems, i - 1)
             areaPath == nodeMap.at[rootNodes[i]].areaPath
             workItem == workItems[i]
         IN  IF workItem = Null THEN before
             ELSE IF areaPath \in Range(before.order)
             THEN [before EXCEPT !.at = [k \in Range(before.order) |->
                        IF k = areaPath THEN Append(before.at[k], workItem)
                        ELSE before.at[k]]]
             ELSE [order |-> Append(before.order, areaPath),
                   at |-> [k \in Range(before.order) \cup {areaPath} |->
                              IF k = areaPath THEN <<workItem>> ELSE before.at[k]]]

FormatStreams(valueStreamMap) ==
    LET kept == SelectSeq(valueStreamMap.order,
                          LAMBDA name : Len(valueStreamMap.at[name]) > 0)
    IN  [i \in 1..Len(kept) |->
            [id |-> ValueStreamId(kept[i]),
             name |-> ValueStreamName(kept[i]),
             workItems |-> valueStreamMap.at[kept[i]]]]

\* mutant: one stream per area path of a root, converted or not, none dropped
groupByAreaPathOfEveryRoot(nodeMap, rootNodes, workItems) ==
    LET indexes == [i \in 1..Len(rootNodes) |-> i]
        area(i) == nodeMap.at[rootNodes[i]].areaPath
        firsts == SelectSeq(indexes, LAMBDA i : \A j \in 1..(i - 1) : area(j) # area(i))
        members(k) == SelectSeq(indexes, LAMBDA i : area(i) = area(firsts[k])
                                                    /\ workItems[i] # Null)
    IN  [k \in 1..Len(firsts) |->
            [id |-> ValueStreamId(area(firsts[k])),
             name |-> ValueStreamName(area(firsts[k])),
             workItems |-> [n \in 1..Len(members(k)) |-> workItems[members(k)[n]]]]]

groupByAreaPath(nodeMap, rootNodes, workItems) ==
    FormatStreams(PushRoots(nodeMap, rootNodes, workItems, Len(rootNodes)))

\* Steps 5-7: what the function settles with once the relations, the details
\* and the iteration index are at hand
Resolved(value) == [kind |-> "resolved", value |-> value]
Rejected(error) == [kind |-> "rejected", error |-> error]

ConvertRoots(nodeMap, rootNodes, iterationMap, project) ==
    [i \in 1..Len(rootNodes) |->
        convertNodeToWorkItem(nodeMap, rootNodes[i], iterationMap, project)]

\* lines 646-672: convert the roots, group them, or fail on a stack overflow
ConvertAndGroup(nodeMap, rootNodes, iterationMap, project) ==
    LET workItems == ConvertRoots(nodeMap, rootNodes, iterationMap, project)
    IN  IF \E i \in 1..Len(workItems) : workItems[i] = StackOverflow
        THEN Rejected("RangeError")
        ELSE Resolved(groupByAreaPath(nodeMap, rootNodes, workItems))

AssembleResult(workItemRelations, workItemDetailsMap, iterationMap, project, rootType, effectiveIterationFilter) ==
    LET nodeMap == buildTreeFromLinks(workItemRelations, workItemDetailsMap)
        rootNodes == findRootNodes(nodeMap, rootType, iterationMap, project,
                                   effectiveIterationFilter)
    IN  ConvertAndGroup(nodeMap, rootNodes, iterationMap, project)

(***************************************************************************)
(* Dates and quarters.  A date is the day number Day(y, m, d) of year y,   *)
(* 0-based month m and day d; the encoding is monotone in (y, m, d).       *)
(***************************************************************************)
Day(y, m, d) == (y * 12 + m) * 31 + (d - 1)

IsLeapYear(y) == (y % 4 = 0 /\ y % 100 # 0) \/ y % 400 = 0

DaysInMonth(y, m) ==
    IF m = 1 THEN (IF IsLeapYear(y) THEN 29 ELSE 28)
    ELSE IF m \in {3, 5, 8, 10} THEN 30 ELSE 31

\* new Date(y, m, 0) for m in 1..12: the last day of the month before m
LastDayBefore(y, m) == Day(y, m - 1, DaysInMonth(y, m - 1))

RECURSIVE shiftQuarterUp(_, _)
shiftQuarterUp(newQ, newY) ==
    IF newQ < 1 THEN shiftQuarterUp(newQ + 4, newY - 1) ELSE [q |-> newQ, y |-> newY]

RECURSIVE shiftQuarterDown(_, _)
shiftQuarterDown(newQ, newY) ==
    IF newQ > 4 THEN shiftQuarterDown(newQ - 4, newY + 1) ELSE [q |-> newQ, y |-> newY]

\* mutant: the quarter number wraps, the year does not follow
shiftQuarterSameYear(year, q, offset) ==
    [q |-> ((q + offset - 1) % 4) + 1, y |-> year]

shiftQuarter(year, q, offset) ==
    LET up == shiftQuarterUp(q + offset, year)
    IN  shiftQuarterDown(up.q, up.y)

\* mutant: the window starts four months before the reference month
getQuarterRangeByMonth(referenceDate) ==
    LET year == referenceDate.year
        month == referenceDate.month
        after == shiftQuarter(year, (month \div 3) + 1, 2)
    IN  [previousQuarterStart |-> Day(year, month - 4, 1),
         twoQuartersAfterEnd |-> LastDayBefore(after.y, after.q * 3)]

getQuarterRange(referenceDate) ==
    LET year == referenceDate.year
        month == referenceDate.month
        currentQuarter == (month \div 3) + 1
        prev == shiftQuarter(year, currentQuarter, -1)
        prevStartMonth == (prev.q - 1) * 3
        after == shiftQuarter(year, currentQuarter, 2)
        afterEndMonth == after.q * 3
    IN  [previousQuarterStart |-> Day(prev.y, prevStartMonth, 1),
         twoQuartersAfterEnd |-> LastDayBefore(after.y, afterEndMonth)]

(***************************************************************************)
(* calculateTimelineRange of the timeline view: the visible window, moved  *)
(* by quarterOffset quarters.  Quarters are 0-based here.                  *)
(***************************************************************************)
TotalQuarters == 4

RECURSIVE wrapQuarterUp(_, _)
wrapQuarterUp(quarter, year) ==
    IF quarter < 0 THEN wrapQuarterUp(quarter + 4, year - 1)
    ELSE [quarter |-> quarter, year |-> year]

RECURSIVE wrapQuarterDown(_, _)
wrapQuarterDown(quarter, year) ==
    IF quarter >= 4 THEN wrapQuarterDown(quarter - 4, year + 1)
    ELSE [quarter |-> quarter, year |-> year]

\* mutant: the visible window is three quarters long
calculateTimelineRangeOfThree(today, quarterOffset) ==
    LET currentQuarter == today.month \div 3
        up == wrapQuarterUp(currentQuarter + (-1 + quarterOffset), today.year)
        start == wrapQuarterDown(up.quarter, up.year)
        end == wrapQuarterDown(start.quarter + 3 - 1, start.year)
    IN  [timelineStart |-> Day(start.year, start.quarter * 3, 1),
         timelineEnd |-> LastDayBefore(end.year, (end.quarter + 1) * 3)]

\* today stands for the new Date() of the first line
calculateTimelineRange(today, quarterOffset) ==
    LET currentQuarter == today.month \div 3
        startQuarterOffset == -1 + quarterOffset
        up == wrapQuarterUp(currentQuarter + startQuarterOffset, today.year)
        start == wrapQuarterDown(up.quarter, up.year)
        startMonth == start.quarter * 3
        end == wrapQuarterDown(start.quarter + TotalQuarters - 1, start.year)
        endMonth == (end.quarter + 1) * 3
    IN  [timelineStart |-> Day(start.year, startMonth, 1),
         timelineEnd |-> LastDayBefore(end.year, endMonth)]

(***************************************************************************)
(* extractIterationsFromNode.  A classification node is a record           *)
(* [name, startDate, finishDate, children]; the body of an error response  *)
(* parsed as JSON is a node without name, attributes and children.         *)
(***************************************************************************)
Override(f, g) ==
    [k \in DOMAIN f \cup DOMAIN g |-> IF k \in DOMAIN g THEN g[k] ELSE f[k]]

ErrorBody == [errorBody |-> TRUE]

RECURSIVE extractIterations(_, _, _)
RECURSIVE extractChildren(_, _, _, _, _)

extractChildren(iterationMap, children, projectName, currentPath, i) ==
    IF i > Len(children) THEN iterationMap
    ELSE extractChildren(
             Override(iterationMap,
                      extractIterations(children[i], projectName, currentPath)),
             children, projectName, currentPath, i + 1)

extractIterations(node, projectName, parentPath) ==
    LET currentPath == IF parentPath = <<>> THEN node.name
                       ELSE JoinPath(parentPath, node.name)
        own == IF node.startDate # 0 /\ node.finishDate # 0
               THEN [k \in {currentPath} |->
                        [startDate |-> node.startDate, finishDate |-> node.finishDate]]
               ELSE <<>>
    IN  extractChildren(own, node.children, projectName, currentPath, 1)

extractIterationsFromNode(node, projectName) ==
    IF node = ErrorBody THEN <<>>
    ELSE extractIterations(node, projectName, <<>>)

(***************************************************************************)
(* getCurrentIterationContext (after its fetch) and buildWorkItemTreeQuery *)
(***************************************************************************)
\* mutant: every iteration that overlaps the window is chosen
ContextPathsOverlapping(iterationMap, today) ==
    LET range == getQuarterRange(today)
    IN  {path \in DOMAIN iterationMap :
            /\ iterationMap[path].startDate <= range.twoQuartersAfterEnd
            /\ iterationMap[path].finishDate >= range.previousQuarterStart}

ContextPaths(iterationMap, today) ==
    LET range == getQuarterRange(today)
    IN  {path \in DOMAIN iterationMap :
            /\ iterationMap[path].startDate >= range.previousQuarterStart
            /\ iterationMap[path].finishDate <= range.twoQuartersAfterEnd}

\* the iteration clause of the query: "paths" (OR of equalities), "nonEmpty"
\* ([Source].[System.IterationPath] <> '') or "none"
buildWorkItemTreeQuery(project, rootWorkItemType, iterationFilter) ==
    [project |-> project,
     rootWorkItemType |-> rootWorkItemType,
     clause |-> IF ~iterationFilter.hasFilter THEN "none"
                ELSE IF iterationFilter.iterationPaths # {} THEN "paths"
                ELSE IF iterationFilter.requireIteration # "false" THEN "nonEmpty"
                ELSE "none",
     paths |-> IF iterationFilter.hasFilter THEN iterationFilter.iterationPaths ELSE {}]

\* lines 564-580: the filter the cycle goes on with, given the context paths
\* mutant: without context paths the cycle goes on with no filter at all
EffectiveFilterWithoutFloor(iterationFilter, iterationPaths) ==
    IF iterationPaths # {}
    THEN [iterationFilter EXCEPT !.hasFilter = TRUE,
                                 !.iterationPaths = iterationPaths,
                                 !.requireIteration = "true"]
    ELSE NoFilter

EffectiveFilter(iterationFilter, iterationPaths) ==
    IF iterationPaths # {}
    THEN [iterationFilter EXCEPT !.hasFilter = TRUE,
                                 !.iterationPaths = iterationPaths,
                                 !.requireIteration = "true"]
    ELSE [NoFilter EXCEPT !.hasFilter = TRUE, !.requireIteration = "true"]

UsesContext(iterationFilter) ==
    ~iterationFilter.hasFilter \/ iterationFilter.useCurrentIterationContext

(***************************************************************************)
(* The backend.  items: id -> fields; links: the link rows of the          *)
(* hierarchy, a row with source 0 being the row of a top-level item;       *)
(* tree: the classification-node tree.  A call is answered "ok", by a      *)
(* rejected fetch ("networkError"), by a 4xx/5xx whose body parses as JSON *)
(* ("httpErrorJson") or by a 4xx/5xx whose body does not parse             *)
(* ("httpErrorText": response.json() throws).                              *)
(***************************************************************************)
WorkItemIds == {1, 2, 3}
NoId == 0                        \* a missing relation endpoint
Project == <<"p">>
ResponseKinds == {"ok", "networkError", "httpErrorJson", "httpErrorText"}

Rel(s, t) == [source |-> s, target |-> t]

\* the rows the WIQL of buildWorkItemTreeQuery selects: the top-level rows of
\* the items that meet the [Source] conditions and the rows below them
MatchesRoot(item, query) ==
    /\ item.project = query.project
    /\ item.workItemType = query.rootWorkItemType
    /\ item.state \notin {"Closed", "Removed"}
    /\ CASE query.clause = "paths" -> item.iterationPath \in query.paths
         [] query.clause = "nonEmpty" -> item.iterationPath # <<>>
         [] OTHER -> TRUE

RECURSIVE Below(_, _)
Below(ids, links) ==
    LET more == ids \cup {r.target : r \in {x \in Range(links) : x.source \in ids}}
    IN  IF more = ids THEN ids ELSE Below(more, links)

QueryAnswer(be, query) ==
    LET matching == {id \in DOMAIN be.items : MatchesRoot(be.items[id], query)}
        scope == Below(matching, be.links)
    IN  SelectSeq(be.links,
                  LAMBDA r : IF r.source = 0 THEN r.target \in matching
                             ELSE r.source \in scope)

(***************************************************************************)
(* fetchWorkItemsLocal, one action per await                               *)
(***************************************************************************)
\* lines 607-614: the ids of the relations in order of first appearance
RECURSIVE CollectIds(_, _, _)
CollectIds(ids, relations, i) ==
    IF i > Len(relations) THEN ids
    ELSE LET r == relations[i]
             withSource == IF r.source # 0 /\ r.source \notin Range(ids)
                           THEN Append(ids, r.source) ELSE ids
             withTarget == IF r.target # 0 /\ r.target \notin Range(withSource)
                           THEN Append(withSource, r.target) ELSE withSource
         IN  CollectIds(withTarget, relations, i + 1)

\* mutant: the details of every fetched item, whatever its project
DetailsMapOfEveryProject(be, ids, project) ==
    [order |-> ids, at |-> [id \in Range(ids) |-> be.items[id]]]

\* lines 622-631: the details of the project's own items, keyed by id
DetailsMap(be, ids, project) ==
    LET own == SelectSeq(ids, LAMBDA id : be.items[id].project = project)
    IN  [order |-> own, at |-> [id \in Range(own) |-> be.items[id]]]

EmptyDetails == [order |-> <<>>, at |-> <<>>]

Fault(call, kind) == IF kind = "ok" THEN {} ELSE {[call |-> call, kind |-> kind]}

\* lines 558-566 and 587-595: up to the first await
Start ==
    /\ pc = "start"
    /\ IF UsesContext(callerFilter)
       THEN /\ pc' = "context"
            /\ calls' = Append(calls, "classificationnodes")
            /\ UNCHANGED effectiveFilter
       ELSE /\ pc' = "wiql"
            /\ calls' = Append(calls, "wiql")
            /\ effectiveFilter' = callerFilter
    /\ UNCHANGED <<backend, now, rootLevel, callerFilter, relationRows, iterationIndex,
                   detailsMap, settled, faults>>
    /\ UNCHANGED <<history, notFetch>>

\* getCurrentIterationContext from its fetch on (every failure is caught and
\* answered by []), then lines 568-595
ContextResponse(kind) ==
    /\ pc = "context"
    /\ LET data == IF kind = "ok" THEN backend.tree ELSE ErrorBody
           iterationPaths ==
               IF kind \in {"networkError", "httpErrorText"} THEN {}
               ELSE ContextPaths(extractIterationsFromNode(data, Project), now)
       IN  effectiveFilter' = EffectiveFilter(callerFilter, iterationPaths)
    /\ faults' = faults \cup Fault("context", kind)
    /\ calls' = Append(calls, "wiql")
    /\ pc' = "wiql"
    /\ UNCHANGED <<backend, now, rootLevel, callerFilter, relationRows, iterationIndex,
                   detailsMap, settled>>
    /\ UNCHANGED <<history, notFetch>>

\* mutant: the early return is missing
NoRelationsIgnored(relations) == FALSE

\* lines 602-605: no relations, no further call
NoRelations(relations) == Len(relations) = 0

\* lines 597-619
WiqlResponse(kind) ==
    /\ pc = "wiql"
    /\ faults' = faults \cup Fault("wiql", kind)
    /\ IF kind \in {"networkError", "httpErrorText"}
       THEN /\ settled' = Rejected(IF kind = "networkError" THEN "TypeError"
                                   ELSE "SyntaxError")
            /\ pc' = "done"
            /\ UNCHANGED <<relationRows, calls>>
       ELSE LET query == buildWorkItemTreeQuery(Project, rootLevel,
                                                effectiveFilter)
                relations == IF kind = "ok" THEN QueryAnswer(backend, query)
                             ELSE <<>>
            IN  /\ relationRows' = relations
                /\ IF NoRelations(relations)
                   THEN /\ settled' = Resolved(<<>>)
                        /\ pc' = "done"
                        /\ UNCHANGED calls
                   ELSE /\ pc' = "workitems"
                        /\ calls' = Append(calls, "workitems")
                        /\ UNCHANGED settled
    /\ UNCHANGED <<backend, now, rootLevel, callerFilter, iterationIndex,
                   effectiveFilter, detailsMap>>
    /\ UNCHANGED <<history, notFetch>>

\* lines 620-636; an error body has no value array and .filter throws
WorkItemsResponse(kind) ==
    /\ pc = "workitems"
    /\ faults' = faults \cup Fault("workitems", kind)
    /\ IF kind = "ok"
       THEN /\ detailsMap' =
                   DetailsMap(backend, CollectIds(<<>>, relationRows, 1), Project)
            /\ pc' = "classification"
            /\ calls' = Append(calls, "classificationnodes")
            /\ UNCHANGED settled
       ELSE /\ settled' = Rejected(CASE kind = "networkError" -> "TypeError"
                                     [] kind = "httpErrorText" -> "SyntaxError"
                                     [] OTHER -> "TypeError")
            /\ pc' = "done"
            /\ UNCHANGED <<detailsMap, calls>>
    /\ UNCHANGED <<backend, now, rootLevel, callerFilter, iterationIndex,
                   effectiveFilter, relationRows>>
    /\ UNCHANGED <<history, notFetch>>

\* lines 637-672
ClassificationResponse(kind) ==
    /\ pc = "classification"
    /\ faults' = faults \cup Fault("classification", kind)
    /\ IF kind \in {"networkError", "httpErrorText"}
       THEN /\ settled' = Rejected(IF kind = "networkError" THEN "TypeError"
                                   ELSE "SyntaxError")
            /\ UNCHANGED iterationIndex
       ELSE LET classificationData == IF kind = "ok" THEN backend.tree ELSE ErrorBody
                iterationMap == extractIterationsFromNode(classificationData, Project)
            IN  /\ iterationIndex' = iterationMap
                /\ settled' = AssembleResult(relationRows, detailsMap,
                                             iterationMap, Project, rootLevel,
                                             effectiveFilter)
    /\ pc' = "done"
    /\ UNCHANGED <<backend, now, rootLevel, callerFilter,
                   effectiveFilter, relationRows,
                   detailsMap, calls>>
    /\ UNCHANGED <<history, notFetch>>

Next ==
    \/ Start
    \/ \E kind \in ResponseKinds : ContextResponse(kind)
    \/ \E kind \in ResponseKinds : WiqlResponse(kind)
    \/ \E kind \in ResponseKinds : WorkItemsResponse(kind)
    \/ \E kind \in ResponseKinds : ClassificationResponse(kind)

Pending == [kind |-> "pending"]

(***************************************************************************)
(* Initial states of a fetch cycle: a backend, a date and the arguments    *)
(***************************************************************************)
Item(type, state, iterationPath, areaPath, project) ==
    [workItemType |-> type, state |-> state, iterationPath |-> iterationPath,
     areaPath |-> areaPath, project |-> project]

SprintS == <<"p", BS, "s">>      \* inside the context window of Today
SprintT == <<"p", BS, "t">>      \* dated, but not inside the window
SprintU == <<"p", BS, "a">>
SprintV == <<"p", BS, "b">>
AreaA == <<"p", BS, "a">>
AreaB == <<"p", BS, "b">>
AreaC == <<"b">>

ItemKinds ==
    {Item("Epic", "Active", SprintS, AreaA, Project),
     Item("Epic", "Done", SprintT, AreaB, Project),
     Item("Feature", "Active", <<"s">>, AreaA, Project),
     Item("Feature", "Done", SprintS, AreaB, <<"q">>)}

Leaf(name, startDate, finishDate) ==
    [name |-> name, startDate |-> startDate, finishDate |-> finishDate,
     children |-> <<>>]

SampleTree ==
    [name |-> Project, startDate |-> 0, finishDate |-> 0,
     children |-> <<Leaf(<<"s">>, Day(2024, 0, 1), Day(2024, 0, 14)),
                    Leaf(<<"t">>, Day(2023, 8, 20), Day(2023, 9, 5))>>]

Today == [year |-> 2024, month |-> 4]

\* the link rows of a hierarchy in which parent[id] is the parent of id
LinkRows(parent) == [id \in WorkItemIds |-> Rel(parent[id], id)]

Backends ==
    {[items |-> items, links |-> LinkRows(parent), tree |-> SampleTree] :
        items \in [WorkItemIds -> ItemKinds],
        parent \in {f \in [WorkItemIds -> WorkItemIds \cup {NoId}] :
                       \A id \in WorkItemIds : f[id] <= id}}

ContextFilter == [NoFilter EXCEPT !.hasFilter = TRUE,
                                  !.useCurrentIterationContext = TRUE]
DateFilter == [NoFilter EXCEPT !.hasFilter = TRUE,
                               !.startDate = Day(2024, 0, 1),
                               !.endDate = Day(2024, 2, 31)]
CallerFilters == {NoFilter, ContextFilter, DateFilter}

FetchInit ==
    /\ backend \in Backends
    /\ now = Today
    /\ rootLevel \in {"Epic", "Feature"}
    /\ callerFilter \in CallerFilters
    /\ effectiveFilter = NoFilter
    /\ relationRows = <<>>
    /\ detailsMap = EmptyDetails
    /\ iterationIndex = <<>>
    /\ settled = Pending
    /\ calls = <<>>
    /\ faults = {}
    /\ pc = "start"
    /\ history = <<>>

\* classification trees whose iterations lie on and around the edges of the
\* window of Today (1 January 2024 to 31 December 2024); 0 is a missing date
EdgeStarts == {0, Day(2023, 11, 31), Day(2024, 0, 1)}
EdgeFinishes == {0, Day(2024, 11, 31), Day(2025, 0, 1)}

ContextTrees ==
    {[name |-> Project, startDate |-> 0, finishDate |-> 0,
      children |-> <<Leaf(<<"s">>, a, b),
                     [name |-> <<"t">>, startDate |-> c, finishDate |-> d,
                      children |-> <<Leaf(<<"s">>, Day(2024, 5, 1), Day(2024, 5, 14))>>]>>] :
        a \in EdgeStarts, b \in EdgeFinishes, c \in EdgeStarts, d \in EdgeFinishes}
    \cup {[name |-> Project, startDate |-> 0, finishDate |-> 0, children |-> <<>>]}

\* the caller asks for the current iteration context and gives a date range
ContextDateFilter ==
    [ContextFilter EXCEPT !.startDate = Day(2024, 0, 1), !.endDate = Day(2024, 2, 31)]

ContextInit ==
    /\ \E tree \in ContextTrees :
           backend = [items |-> [id \in WorkItemIds |->
                                   Item("Epic", "Active", SprintS, AreaA, Project)],
                      links |-> LinkRows([id \in WorkItemIds |-> NoId]),
                      tree |-> tree]
    /\ now = Today
    /\ rootLevel = "Epic"
    /\ callerFilter \in {NoFilter, ContextFilter, ContextDateFilter}
    /\ effectiveFilter = NoFilter
    /\ relationRows = <<>>
    /\ detailsMap = EmptyDetails
    /\ iterationIndex = <<>>
    /\ settled = Pending
    /\ calls = <<>>
    /\ faults = {}
    /\ pc = "start"
    /\ history = <<>>

FetchIdle ==
    /\ backend = [items |-> <<>>, links |-> <<>>, tree |-> ErrorBody]
    /\ now = Today
    /\ rootLevel = "Epic"
    /\ callerFilter = NoFilter
    /\ effectiveFilter = NoFilter
    /\ relationRows = <<>>
    /\ detailsMap = EmptyDetails
    /\ iterationIndex = <<>>
    /\ settled = Pending
    /\ calls = <<>>
    /\ faults = {}
    /\ pc = "off"
    /\ history = <<>>

LkIdle ==
    /\ lkPath = <<>>
    /\ lkProject = Project
    /\ lkMap = <<>>
    /\ lkResult = Undefined
    /\ lkPc = "off"

(***************************************************************************)
(* Tree harness: relation lists, detail maps and indexes are drawn from    *)
(* bounded sets and steps 5-7 of fetchWorkItemsLocal are applied to them.  *)
(***************************************************************************)
RelationPairs == {Rel(src, tgt) : src \in WorkItemIds \cup {NoId},
                                  tgt \in WorkItemIds \cup {NoId}}

Absent == [absent |-> TRUE]

RECURSIVE Ascending(_)
Ascending(ids) ==
    IF ids = {} THEN <<>>
    ELSE LET least == CHOOSE x \in ids : \A y \in ids : x <= y
         IN  <<least>> \o Ascending(ids \ {least})

\* the details Map holding fields[id] for the ids that are not Absent
MakeDetails(fields) ==
    LET known == {id \in DOMAIN fields : fields[id] # Absent}
    IN  [order |-> Ascending(known), at |-> [id \in known |-> fields[id]]]

SampleIndex == extractIterationsFromNode(SampleTree, Project)

TreeInit(relationLists, fieldChoices, rootTypes, indexes, filters) ==
    /\ trRelations \in relationLists
    /\ \E fields \in fieldChoices : trDetails = MakeDetails(fields)
    /\ trIterationMap \in indexes
    /\ trRootType \in rootTypes
    /\ trFilter \in filters
    /\ trNodeMap = EmptyDetails
    /\ trRootNodes = <<>>
    /\ trProgress = <<>>
    /\ trResult = Pending
    /\ trPc = "input"

TrIdle ==
    /\ trRelations = <<>>
    /\ trDetails = EmptyDetails
    /\ trIterationMap = <<>>
    /\ trRootType = "Epic"
    /\ trFilter = NoFilter
    /\ trNodeMap = EmptyDetails
    /\ trRootNodes = <<>>
    /\ trProgress = <<>>
    /\ trResult = Pending
    /\ trPc = "off"

\* lines 642-672 in one step
Assemble ==
    /\ trPc = "input"
    /\ trNodeMap' = buildTreeFromLinks(trRelations, trDetails)
    /\ trRootNodes' = findRootNodes(trNodeMap', trRootType, trIterationMap,
                                    Project, trFilter)
    /\ trProgress' = [id \in DOMAIN trNodeMap'.at |->
                         calculateNodeProgress(trNodeMap', trNodeMap'.at[id])]
    /\ trResult' = ConvertAndGroup(trNodeMap', trRootNodes', trIterationMap, Project)
    /\ trPc' = "assembled"
    /\ UNCHANGED <<trRelations, trDetails, trIterationMap, trRootType, trFilter>>
    /\ UNCHANGED notTr

\* the fields of the harness that a specification does not vary
Plain(type, state) == Item(type, state, SprintS, AreaA, Project)

RootsInit ==
    TreeInit(SeqsUpTo(RelationPairs, MaxRels),
             [WorkItemIds -> {Absent, Plain("Epic", "Active"),
                              Plain("Feature", "Active")}],
             {"Epic", "Feature"}, {SampleIndex}, {NoFilter})

ProgressInit ==
    TreeInit(SeqsUpTo(RelationPairs, MaxRels),
             [WorkItemIds -> {Plain(type, state) :
                                 type \in {"Epic", "User Story"},
                                 state \in {"Active", "Resolved"}}],
             {"Epic"}, {SampleIndex}, {NoFilter})

\* an explicit range and iterations that end on, end before, begin on and
\* begin after its edges
RangeStart == Day(2024, 3, 1)
RangeEnd == Day(2024, 5, 30)

RangeIndex ==
    (SprintS :> [startDate |-> Day(2024, 2, 15), finishDate |-> RangeStart])
    @@ (SprintT :> [startDate |-> RangeEnd, finishDate |-> Day(2024, 6, 10)])
    @@ (SprintU :> [startDate |-> Day(2024, 2, 1), finishDate |-> RangeStart - 1])
    @@ (SprintV :> [startDate |-> RangeEnd + 1, finishDate |-> Day(2024, 6, 10)])

\* filters given by the caller, with or without a path set
ExplicitFilters ==
    {[NoFilter EXCEPT !.hasFilter = TRUE, !.startDate = S, !.endDate = E,
                      !.iterationPaths = paths] :
        S \in {0, RangeStart}, E \in {0, RangeEnd}, paths \in {{}, {SprintS}}}

\* the effective filters of a cycle: the caller's own, or the one made from
\* the context paths when the caller asks for the current iteration context
RangeFilters ==
    ExplicitFilters
    \cup {EffectiveFilter([f EXCEPT !.useCurrentIterationContext = TRUE], {SprintS}) :
             f \in {g \in ExplicitFilters : g.iterationPaths = {}}}

RangeInit ==
    TreeInit({<<>>, <<Rel(NoId, 1), Rel(1, 3)>>},
             [WorkItemIds -> {Item("Epic", "Active", path, AreaA, Project) :
                                 path \in {SprintS, SprintT, SprintU, SprintV,
                                           <<"p", BS, "p">>, <<>>}}],
             {"Epic"}, {RangeIndex}, RangeFilters)

\* ids 1 and 2 are Epics, id 3 is a Feature; the iteration paths and the area
\* of the second Epic vary
ConvertInit ==
    TreeInit(SeqsUpTo(RelationPairs, MaxRels),
             {fields \in [WorkItemIds ->
                             {Item(type, "Active", path, area, Project) :
                                 type \in {"Epic", "Feature"},
                                 path \in {<<"s">>, SprintT, <<>>},
                                 area \in {AreaA, AreaB, AreaC}}] :
                 /\ fields[1].workItemType = "Epic" /\ fields[1].areaPath = AreaA
                 /\ fields[2].workItemType = "Epic"
                 /\ fields[3].workItemType = "Feature" /\ fields[3].areaPath = AreaA},
             {"Epic"}, {SampleIndex}, {NoFilter})

\* relation lists that hang a chain of three relations below item 1; among
\* them 1->2, 2->3, 3->2, lists with a self-relation and lists without a cycle
ChainLists ==
    {<<Rel(1, a), Rel(a, b), Rel(b, c)>> : a, b, c \in WorkItemIds}

ChainInit ==
    TreeInit(ChainLists,
             {fields \in [WorkItemIds ->
                             {Item(type, "Active", path, AreaA, Project) :
                                 type \in {"Epic", "Feature"},
                                 path \in {<<"s">>, SprintT, <<>>}}] :
                 /\ fields[1].workItemType = "Epic"
                 /\ fields[2].workItemType = "Feature"
                 /\ fields[3].workItemType = "Feature"},
             {"Epic"}, {SampleIndex}, {NoFilter})

(***************************************************************************)
(* The same request made again: fetchWorkItemsLocal is called a second     *)
(* time with the same arguments against the same backend, at a later date. *)
(***************************************************************************)
SameQuarter == [year |-> 2024, month |-> 5]
NextYear == [year |-> 2025, month |-> 1]
Dates == {Today, SameQuarter, NextYear}

Forests == {[id \in WorkItemIds |-> NoId],
            [id \in WorkItemIds |-> id - 1],
            [id \in WorkItemIds |-> IF id = 1 THEN NoId ELSE 1]}

RerunInit ==
    /\ FetchInit
    /\ callerFilter = ContextFilter
    /\ \E parent \in Forests : backend.links = LinkRows(parent)
    /\ \A id \in WorkItemIds : backend.items[id].project = Project

Rerun ==
    /\ pc = "done"
    /\ history = <<>>
    /\ history' = Append(history, [now |-> now, faults |-> faults, settled |-> settled])
    /\ now' \in {d \in Dates : Day(d.year, d.month, 1) >= Day(now.year, now.month, 1)}
    /\ effectiveFilter' = NoFilter
    /\ relationRows' = <<>>
    /\ detailsMap' = EmptyDetails
    /\ iterationIndex' = <<>>
    /\ settled' = Pending
    /\ calls' = <<>>
    /\ faults' = {}
    /\ pc' = "start"
    /\ UNCHANGED <<backend, rootLevel, callerFilter, notFetch>>

NextRerun == Next \/ Rerun

(***************************************************************************)
(* useTimelineData.  Every run of the effect is a cycle of its own; the    *)
(* fetch of a cycle (fetchValueStreamsAuto) calls the service function     *)
(* again with other arguments when a call fails.  What a call resolves     *)
(* with is a list of streams, here the list of the root type it asked for. *)
(***************************************************************************)
StreamsFor(rootType) ==
    <<[id |-> <<"a">>, name |-> <<"a">>,
       workItems |-> <<[id |-> 1, workItemType |-> rootType]>>]>>

\* dataAdapter transformLegacyData for streams that carry workItems
transformLegacyData(valueStreams) ==
    [valueStreams |->
        [k \in 1..Len(valueStreams) |->
            [id |-> valueStreams[k].id,
             name |-> valueStreams[k].name,
             workItems |-> valueStreams[k].workItems]]]

\* the calls of the service function one fetch can make
MaxAttempts(env) ==
    CASE env = "dev" -> 4
      [] env = "extension" -> 2
      [] OTHER -> 0

\* the rootLevel a call passes on: only the first call of a fetch hands the
\* service a config object, the later ones fall back to the default 'Epic'
RootLevelOfAttempt(env, rootType, attempt) ==
    IF attempt = 1 \/ env = "extension" THEN rootType ELSE "Epic"

NewCycle(rootType, env) ==
    [rootType |-> rootType,
     attempt |-> IF MaxAttempts(env) = 0 THEN 0 ELSE 1,
     status |-> "running"]

HkInit ==
    /\ hkEnv \in {"dev", "devUnconfigured", "extension"}
    /\ hkRootType \in {"Epic", "Feature"}
    /\ hkCycles = <<NewCycle(hkRootType, hkEnv)>>
    /\ hkData = [valueStreams |-> <<>>]
    /\ hkLoading = TRUE
    /\ hkError = "null"
    /\ hkDataFrom = 0

HkIdle ==
    /\ hkEnv = "dev"
    /\ hkRootType = "Epic"
    /\ hkCycles = <<>>
    /\ hkData = [valueStreams |-> <<>>]
    /\ hkLoading = TRUE
    /\ hkError = "null"
    /\ hkDataFrom = 0

\* a render with another rootWorkItemType runs the effect again (lines 117-119)
ChangeRootType(rootType) ==
    /\ Len(hkCycles) \in 1..(MaxCycles - 1)
    /\ rootType # hkRootType
    /\ hkRootType' = rootType
    /\ hkCycles' = Append(hkCycles, NewCycle(rootType, hkEnv))
    /\ hkLoading' = TRUE
    /\ hkError' = "null"
    /\ UNCHANGED <<hkEnv, hkData, hkDataFrom, notHk>>

\* a call of the service function rejects and the next one is made
AttemptFails(i) ==
    /\ i \in 1..Len(hkCycles)
    /\ hkCycles[i].status = "running"
    /\ hkCycles[i].attempt \in 1..(MaxAttempts(hkEnv) - 1)
    /\ hkCycles' = [hkCycles EXCEPT ![i].attempt = @ + 1]
    /\ UNCHANGED <<hkEnv, hkRootType, hkData, hkLoading, hkError, hkDataFrom, notHk>>

\* the last call rejects, or the configuration is missing: lines 152-158
CycleFails(i) ==
    /\ i \in 1..Len(hkCycles)
    /\ hkCycles[i].status = "running"
    /\ hkCycles[i].attempt = MaxAttempts(hkEnv)
    /\ hkCycles' = [hkCycles EXCEPT ![i].status = "failed"]
    /\ hkError' = "message"
    /\ hkData' = [valueStreams |-> <<>>]
    /\ hkDataFrom' = i
    /\ hkLoading' = FALSE
    /\ UNCHANGED <<hkEnv, hkRootType, notHk>>

\* a call resolves: lines 142-151 and 158
CycleSucceeds(i, empty) ==
    /\ i \in 1..Len(hkCycles)
    /\ hkCycles[i].status = "running"
    /\ hkCycles[i].attempt >= 1
    /\ hkCycles' = [hkCycles EXCEPT ![i].status = "succeeded"]
    /\ LET valueStreams ==
               IF empty THEN <<>>
               ELSE StreamsFor(RootLevelOfAttempt(hkEnv, hkCycles[i].rootType,
                                                  hkCycles[i].attempt))
       IN  hkData' = transformLegacyData(valueStreams)
    /\ hkDataFrom' = i
    /\ hkLoading' = FALSE
    /\ UNCHANGED <<hkEnv, hkRootType, hkError, notHk>>

HkNext ==
    \/ \E rootType \in {"Epic", "Feature"} : ChangeRootType(rootType)
    \/ \E i \in 1..MaxCycles : AttemptFails(i)
    \/ \E i \in 1..MaxCycles : CycleFails(i)
    \/ \E i \in 1..MaxCycles, empty \in BOOLEAN : CycleSucceeds(i, empty)

(***************************************************************************)
(* Quarter harness: the service's window and the view's window are         *)
(* computed for the same current date.                                     *)
(***************************************************************************)
Years == FirstYear..(FirstYear + YearSpan - 1)

QrInit ==
    /\ qrDate \in [year : Years, month : 0..11]
    /\ qrOffset \in (0 - MaxOffset)..MaxOffset
    /\ qrRange = Pending
    /\ qrTimeline = Pending

QrIdle ==
    /\ qrDate = Today
    /\ qrOffset = 0
    /\ qrRange = Pending
    /\ qrTimeline = Pending

QuarterRange ==
    /\ qrRange = Pending
    /\ qrRange' = getQuarterRange(qrDate)
    /\ UNCHANGED <<qrDate, qrOffset, qrTimeline, notQr>>

TimelineRange ==
    /\ qrTimeline = Pending
    /\ qrTimeline' = calculateTimelineRange(qrDate, qrOffset)
    /\ UNCHANGED <<qrDate, qrOffset, qrRange, notQr>>

QrNext == QuarterRange \/ TimelineRange

vars == <<lkVars, fetchVars, trVars, hkVars, qrVars>>

(***************************************************************************)
(* Specifications                                                          *)
(***************************************************************************)
\* one fetch cycle against a backend
Init == FetchInit /\ LkIdle /\ TrIdle /\ HkIdle /\ QrIdle
Spec == Init /\ [][Next]_vars

\* two fetch cycles, one after the other, against one backend
InitRerun == RerunInit /\ LkIdle /\ TrIdle /\ HkIdle /\ QrIdle
SpecRerun == InitRerun /\ [][NextRerun]_vars

\* getQuarterRange and calculateTimelineRange applied to drawn dates
InitQuarter == QrInit /\ LkIdle /\ FetchIdle /\ TrIdle /\ HkIdle
SpecQuarter == InitQuarter /\ [][QrNext]_vars

\* fetch cycles against backends whose classification tree varies
InitContext == ContextInit /\ LkIdle /\ TrIdle /\ HkIdle /\ QrIdle
SpecContext == InitContext /\ [][Next]_vars

\* a mounted useTimelineData whose rootWorkItemType changes
InitHook == HkInit /\ LkIdle /\ FetchIdle /\ TrIdle /\ QrIdle
SpecHook == InitHook /\ [][HkNext]_vars

\* findIterationDates applied to drawn inputs
InitPath == LkInit /\ FetchIdle /\ TrIdle /\ HkIdle /\ QrIdle
SpecPath == InitPath /\ [][Lookup]_vars

\* the tree assembly applied to drawn relation lists and detail maps
InitRoots == RootsInit /\ LkIdle /\ FetchIdle /\ HkIdle /\ QrIdle
SpecRoots == InitRoots /\ [][Assemble]_vars
InitRange == RangeInit /\ LkIdle /\ FetchIdle /\ HkIdle /\ QrIdle
SpecRange == InitRange /\ [][Assemble]_vars
InitProgress == ProgressInit /\ LkIdle /\ FetchIdle /\ HkIdle /\ QrIdle
SpecProgress == InitProgress /\ [][Assemble]_vars
InitConvert == ConvertInit /\ LkIdle /\ FetchIdle /\ HkIdle /\ QrIdle
SpecConvert == InitConvert /\ [][Assemble]_vars

InitChain == ChainInit /\ LkIdle /\ FetchIdle /\ HkIdle /\ QrIdle
SpecChain == InitChain /\ [][Assemble]_vars



\* C1: findIterationDates returns a record whenever the index holds one under
\* P, O\P or P with its leading O\ stripped, and not-found only when none of
\* the three keys is in the index.
C1_LookupComplete ==
    lkPc = "looked" =>
        ((lkResult # Undefined) <=>
            (Spellings(lkPath, lkProject) \cap DOMAIN lkMap # {}))

(***************************************************************************)
(* Tree assembly                                                           *)
(***************************************************************************)
Known(id) == id \in Range(trDetails.order)

\* the relations that link two distinct known nodes
LinkingRows ==
    {i \in 1..Len(trRelations) :
        /\ Known(trRelations[i].source)
        /\ Known(trRelations[i].target)
        /\ trRelations[i].source # trRelations[i].target}

\* C2 as stated: no node that is the target of any relation of the list is in
\* the root list returned by findRootNodes.
C2_NoTargetIsRoot ==
    trPc = "assembled" =>
        \A i \in 1..Len(trRelations) :
            trRelations[i].target \notin Range(trRootNodes)

\* C2 amended: no node that is the target of a relation linking two distinct
\* known nodes is in the root list, even when its type is the root type.
C2_NoLinkedTargetIsRoot ==
    trPc = "assembled" =>
        \A i \in LinkingRows : trRelations[i].target \notin Range(trRootNodes)

\* a node of the root type is the target of a linking relation, and another
\* node is returned as a root
C2_Witness ==
    /\ trPc = "assembled"
    /\ \E i \in LinkingRows :
           trDetails.at[trRelations[i].target].workItemType = trRootType
    /\ trRootNodes # <<>>

\* the rows of the relation list that make a child of node id
ChildRows(id) == {i \in LinkingRows : trRelations[i].source = id}

ChildIsCompleted(i) ==
    LET child == trDetails.at[trRelations[i].target]
    IN  child.state \in getCompletedStates(child.workItemType)

RECURSIVE ItemsOf(_)
ItemsOf(workItem) ==
    {workItem} \cup UNION {ItemsOf(workItem.children[i]) :
                              i \in 1..Len(workItem.children)}

EmittedItems(streams) ==
    UNION {UNION {ItemsOf(streams[k].workItems[i]) :
                     i \in 1..Len(streams[k].workItems)} : k \in 1..Len(streams)}

TreeStreams == IF trResult.kind = "resolved" THEN trResult.value ELSE <<>>

\* the records the index holds under one of the spellings of a path
RecordsFor(path) ==
    {trIterationMap[key] : key \in Spellings(path, Project) \cap DOMAIN trIterationMap}

\* C4: every node at any depth of the returned tree has an iteration path that
\* resolves in the index and carries the dates of the resolved record; a node
\* whose path is empty or does not resolve is not in the tree.
C4_EmittedNodesResolve ==
    \A w \in EmittedItems(TreeStreams) :
        /\ trDetails.at[w.id].iterationPath # <<>>
        /\ [startDate |-> w.iterationStart, finishDate |-> w.iterationEnd]
               \in RecordsFor(trDetails.at[w.id].iterationPath)

\* a tree of depth two was returned, two nodes of it resolve to different
\* iterations, and a child with an unset iteration was left out of it
C4_Witness ==
    /\ trPc = "assembled"
    /\ \E w \in EmittedItems(TreeStreams) :
           /\ w.children # <<>>
           /\ w.children[1].iterationStart # w.iterationStart
           /\ \E c \in Range(trNodeMap.at[w.id].childIds) :
                  trDetails.at[c].iterationPath = <<>>

\* C5: no ValueStream of the returned list has an empty workItems list.
C5_NoEmptyStream ==
    \A k \in 1..Len(TreeStreams) : Len(TreeStreams[k].workItems) > 0

\* a stream was returned, and a root of another area path was dropped because
\* its iteration does not resolve
C5_Witness ==
    /\ trPc = "assembled"
    /\ Len(TreeStreams) = 1
    /\ \E r \in Range(trRootNodes) :
           /\ RecordsFor(trDetails.at[r].iterationPath) = {}
           /\ ValueStreamId(trDetails.at[r].areaPath) # TreeStreams[1].id

(***************************************************************************)
(* Failures of a fetch cycle                                               *)
(***************************************************************************)
Faulted(call, kinds) == \E f \in faults : f.call = call /\ f.kind \in kinds

\* C6: a network or parse failure of the classification-node fetch, of the
\* hierarchy query or of the bulk detail fetch ends the cycle with an error;
\* the cycle never completes with a ValueStream list.
C6_FailureIsFatal ==
    (/\ pc = "done"
     /\ \E call \in {"context", "classification", "wiql", "workitems"} :
            Faulted(call, {"networkError", "httpErrorText"}))
        => settled.kind = "rejected"

\* C7: a 4xx/5xx answer to the hierarchy query ends the cycle with an error,
\* not with a returned list.
C7_HttpErrorIsFatal ==
    (pc = "done" /\ Faulted("wiql", {"httpErrorJson", "httpErrorText"}))
        => settled.kind = "rejected"

\* the hierarchy query was answered, and with no relation
AnsweredNoRelations ==
    /\ pc \notin {"start", "context", "wiql"}
    /\ ~Faulted("wiql", ResponseKinds)
    /\ relationRows = <<>>

\* C8: when the hierarchy query returns zero relations the cycle returns an
\* empty list, raises no error and issues no bulk detail fetch.
C8_NoRelationsEndsEarly ==
    AnsweredNoRelations =>
        /\ pc = "done"
        /\ settled = Resolved(<<>>)
        /\ "workitems" \notin Range(calls)

\* the backend has link rows, but no root met the conditions of the query
C8_Witness ==
    /\ AnsweredNoRelations
    /\ pc = "done"
    /\ backend.links # <<>>
    /\ calls = <<"classificationnodes", "wiql">>

(***************************************************************************)
(* Running the pipeline twice                                              *)
(***************************************************************************)
\* both cycles are over, got the same answers from the backend and returned
BothReturned ==
    /\ Len(history) = 1
    /\ pc = "done"
    /\ history[1].faults = faults
    /\ history[1].settled.kind = "resolved"
    /\ settled.kind = "resolved"

\* the calendar quarter of a date
QuarterOf(date) == [year |-> date.year, quarter |-> date.month \div 3]

AllSettled == \A i \in 1..Len(hkCycles) : hkCycles[i].status # "running"

\* C10: once all cycles have settled, the data held by useTimelineData is the
\* result of the cycle started for the latest rootWorkItemType, also when that
\* cycle completed before an older one.
C10_LatestCycleWins ==
    AllSettled => hkDataFrom = Len(hkCycles)

(***************************************************************************)
(* Grouping of the converted roots                                         *)
(***************************************************************************)
\* the positions in the root list of the roots that were converted
ConvertedRoots ==
    {i \in 1..Len(trRootNodes) :
        convertNodeToWorkItem(trNodeMap, trRootNodes[i], trIterationMap, Project) # Null}

AreaOfRoot(i) == trDetails.at[trRootNodes[i]].areaPath

\* a path with every character outside [a-zA-Z0-9] turned into a hyphen
RECURSIVE Hyphenated(_)
Hyphenated(path) ==
    IF path = <<>> THEN <<>>
    ELSE <<IF Head(path) \in AlphaNum THEN Head(path) ELSE "-">> \o Hyphenated(Tail(path))

\* the last backslash-delimited segment of a path
RECURSIVE LastSegment(_)
LastSegment(path) ==
    IF path = <<>> THEN <<>>
    ELSE IF path[1] = BS \/ \E i \in 2..Len(path) : path[i] = BS
         THEN LastSegment(Tail(path))
         ELSE path

\* the positions of the streams that hold root i
StreamsHolding(i) ==
    {k \in 1..Len(TreeStreams) :
        \E n \in 1..Len(TreeStreams[k].workItems) :
            TreeStreams[k].workItems[n].id = trRootNodes[i]}

\* C11: the output has exactly one ValueStream per distinct area path among
\* the converted roots; each converted root is in exactly the stream of its
\* own area path, once; the stream's id is the area path with every
\* non-alphanumeric character replaced by a hyphen and its name is the last
\* backslash-delimited segment of the area path.
C11_OneStreamPerAreaPath ==
    (trPc = "assembled" /\ trResult.kind = "resolved") =>
        /\ Len(TreeStreams) = Cardinality({AreaOfRoot(i) : i \in ConvertedRoots})
        /\ \A k \in 1..Len(TreeStreams) : \E i \in ConvertedRoots : k \in StreamsHolding(i)
        /\ \A i \in ConvertedRoots :
               /\ Cardinality(StreamsHolding(i)) = 1
               /\ \A k \in StreamsHolding(i) :
                      /\ TreeStreams[k].id = Hyphenated(AreaOfRoot(i))
                      /\ TreeStreams[k].name = LastSegment(AreaOfRoot(i))
                      /\ Cardinality({n \in 1..Len(TreeStreams[k].workItems) :
                             TreeStreams[k].workItems[n].id = trRootNodes[i]}) = 1
               /\ \A j \in ConvertedRoots :
                      (AreaOfRoot(j) = AreaOfRoot(i)) <=> (StreamsHolding(j) = StreamsHolding(i))

\* two roots were converted into two streams, one of an area path with a
\* separator and one of an area path without
C11_Witness ==
    /\ trPc = "assembled"
    /\ Len(TreeStreams) = 2
    /\ Cardinality(ConvertedRoots) = 2
    /\ TreeStreams[1].id = <<"p", "-", "a">>
    /\ TreeStreams[1].name = <<"a">>
    /\ TreeStreams[2].name = AreaC

(***************************************************************************)
(* The iteration context                                                   *)
(***************************************************************************)
\* the classification nodes of a tree, each with its full path
RECURSIVE NodesOf(_, _)
NodesOf(node, parentPath) ==
    LET path == IF parentPath = <<>> THEN node.name ELSE parentPath \o <<BS>> \o node.name
    IN  {[path |-> path, name |-> node.name,
          startDate |-> node.startDate, finishDate |-> node.finishDate]}
        \cup UNION {NodesOf(node.children[i], path) : i \in 1..Len(node.children)}

\* getCurrentIterationContext has returned after an answered fetch
ContextReturned ==
    /\ UsesContext(callerFilter)
    /\ pc \notin {"start", "context"}
    /\ ~Faulted("context", ResponseKinds)

InWindow(n) ==
    /\ n.startDate >= getQuarterRange(now).previousQuarterStart
    /\ n.finishDate <= getQuarterRange(now).twoQuartersAfterEnd

FirstDayOfQuarterBefore(y, q) ==
    CASE q = 0 -> Day(y - 1, 9, 1)
      [] q = 1 -> Day(y, 0, 1)
      [] q = 2 -> Day(y, 3, 1)
      [] q = 3 -> Day(y, 6, 1)

LastDayOfQuarterTwoAfter(y, q) ==
    CASE q = 0 -> Day(y, 8, 30)
      [] q = 1 -> Day(y, 11, 31)
      [] q = 2 -> Day(y + 1, 2, 31)
      [] q = 3 -> Day(y + 1, 5, 30)

\* C13: for every reference date, getQuarterRange returns the first day of
\* the quarter before the reference quarter and the last day of the quarter
\* two after it, across year boundaries: four consecutive quarters.
C13_FourQuarterWindow ==
    qrRange # Pending =>
        /\ qrRange.previousQuarterStart =
               FirstDayOfQuarterBefore(qrDate.year, qrDate.month \div 3)
        /\ qrRange.twoQuartersAfterEnd =
               LastDayOfQuarterTwoAfter(qrDate.year, qrDate.month \div 3)

\* the window of a date in February starts on 1 October of the year before
C13_Witness ==
    /\ qrDate.month = 1
    /\ qrRange # Pending
    /\ qrRange.previousQuarterStart = Day(qrDate.year - 1, 9, 1)
    /\ qrRange.twoQuartersAfterEnd = Day(qrDate.year, 8, 30)

\* C16: the window getQuarterRange gives for the current date is the range
\* calculateTimelineRange gives for quarterOffset 0, for every current date.
C16_SameWindow ==
    (qrRange # Pending /\ qrTimeline # Pending /\ qrOffset = 0) =>
        /\ qrTimeline.timelineStart = qrRange.previousQuarterStart
        /\ qrTimeline.timelineEnd = qrRange.twoQuartersAfterEnd

\* both windows were computed for a date in November and end on 30 June
C16_Witness ==
    /\ qrDate.month = 10
    /\ qrOffset = 0
    /\ qrRange # Pending
    /\ qrTimeline # Pending
    /\ qrTimeline.timelineEnd = Day(qrDate.year + 1, 5, 30)
    /\ qrRange.twoQuartersAfterEnd = Day(qrDate.year + 1, 5, 30)

(***************************************************************************)
(* The keys of the iteration index                                         *)
(***************************************************************************)
\* the iteration index of the cycle was built from the backend's tree
IndexBuilt ==
    /\ pc = "done"
    /\ calls # <<>>
    /\ calls[Len(calls)] = "classificationnodes"
    /\ ~Faulted("classification", ResponseKinds)

\* a path without its leading project name and separator
WithoutProject(path) ==
    IF StartsWith(path, Project \o <<BS>>)
    THEN SubSeq(path, Len(Project) + 2, Len(path)) ELSE path

HasRecord(index, key, n) ==
    /\ key \in DOMAIN index
    /\ index[key] = [startDate |-> n.startDate, finishDate |-> n.finishDate]

ClassificationFetches == {i \in 1..Len(calls) : calls[i] = "classificationnodes"}

\* C18: within one fetch cycle the classification-node tree is fetched and
\* the iteration index built from it exactly once, so that the context paths
\* and the dates of the work items come from the same snapshot.
C18_IndexBuiltOnce ==
    pc = "done" => Cardinality(ClassificationFetches) <= 1

(***************************************************************************)
(* Children of the emitted roots                                           *)
(***************************************************************************)
\* the roots of the returned streams
EmittedRoots ==
    UNION {Range(TreeStreams[k].workItems) : k \in 1..Len(TreeStreams)}

C17_ClassificationThenQueryThenDetails ==
    /\ "wiql" \in Range(calls) => calls[1] = "classificationnodes"
    /\ \A i \in 1..Len(calls), j \in 1..Len(calls) :
           /\ (calls[i] = "classificationnodes" /\ calls[j] = "wiql") => i < j
           /\ (calls[i] = "wiql" /\ calls[j] = "workitems") => i < j

(***************************************************************************)
(* Children after buildTreeFromLinks                                       *)
(***************************************************************************)
\* the targets, in relation order, of the relations that link node id to
\* another known node
RECURSIVE TargetsOf(_, _)
TargetsOf(id, i) ==
    IF i = 0 THEN <<>>
    ELSE IF i \in LinkingRows /\ trRelations[i].source = id
         THEN Append(TargetsOf(id, i - 1), trRelations[i].target)
         ELSE TargetsOf(id, i - 1)

\* C19: after buildTreeFromLinks the children of every node are exactly the
\* targets of the relations whose source is the node, whose ends are both
\* known and differ, in relation order; no node is its own child.
C19_ChildrenAreLinkedTargets ==
    trPc = "assembled" =>
        \A id \in DOMAIN trNodeMap.at :
            /\ trNodeMap.at[id].childIds = TargetsOf(id, Len(trRelations))
            /\ id \notin Range(trNodeMap.at[id].childIds)

\* a node got one child from two relations, the other being a relation to
\* itself or to an unknown node
C19_Witness ==
    /\ trPc = "assembled"
    /\ Len(trRelations) = 2
    /\ trRelations[1].source = trRelations[2].source
    /\ Known(trRelations[1].source)
    /\ trRelations[1].target \in {trRelations[1].source} \cup (WorkItemIds \ Range(trDetails.order))
    /\ Len(trNodeMap.at[trRelations[1].source].childIds) = 1

(***************************************************************************)
(* Roots and an explicit calendar range                                    *)
(***************************************************************************)
\* the nodes findRootNodes chooses from: of the root type, child of no node
CandidateRoots ==
    {id \in Range(trDetails.order) :
        /\ trDetails.at[id].workItemType = trRootType
        /\ \A i \in LinkingRows : trRelations[i].target # id}

\* the iteration of the node resolves and overlaps [S, E], edges included
OverlapsRange(id) ==
    \E r \in RecordsFor(trDetails.at[id].iterationPath) :
        /\ r.finishDate >= trFilter.startDate
        /\ r.startDate <= trFilter.endDate

\* C20: with an explicit range [S, E] findRootNodes keeps a candidate root if
\* and only if its iteration resolves, ends on or after S and starts on or
\* before E.
C20_RootsOverlapRange ==
    (trPc = "assembled" /\ trFilter.startDate # 0 /\ trFilter.endDate # 0) =>
        \A id \in CandidateRoots :
            (id \in Range(trRootNodes)) <=> OverlapsRange(id)

\* a root whose iteration ends on S and one whose iteration starts on E are
\* kept, one whose iteration ends the day before S is not
C20_Witness ==
    /\ trPc = "assembled"
    /\ trFilter.startDate = RangeStart
    /\ trFilter.endDate = RangeEnd
    /\ \E x \in CandidateRoots, y \in CandidateRoots, z \in CandidateRoots :
           /\ trDetails.at[x].iterationPath = SprintS
           /\ trDetails.at[y].iterationPath = SprintT
           /\ trDetails.at[z].iterationPath = SprintU
           /\ x \in Range(trRootNodes)
           /\ y \in Range(trRootNodes)
           /\ z \notin Range(trRootNodes)

(***************************************************************************)
(* Path-set filters and the date test                                      *)
(***************************************************************************)
\* C21 as stated: whenever the effective filter carries a non-empty
\* iterationPaths set, no root is excluded by the date-overlap test.
C21_NoDateTestWithPathSet ==
    (trPc = "assembled" /\ trFilter.iterationPaths # {}) =>
        CandidateRoots \subseteq Range(trRootNodes)

\* C21 amended: whenever the effective filter carries neither startDate nor
\* endDate, path set or not, no root is excluded by the date-overlap test.
C21_NoDateTestWithoutRange ==
    (trPc = "assembled" /\ trFilter.startDate = 0 /\ trFilter.endDate = 0) =>
        CandidateRoots \subseteq Range(trRootNodes)

\* a filter made from the context paths, without dates, kept a root whose
\* iteration does not resolve and one whose iteration is not in the path set
C21_Witness ==
    /\ trPc = "assembled"
    /\ trFilter.iterationPaths = {SprintS}
    /\ trFilter.useCurrentIterationContext
    /\ trFilter.startDate = 0
    /\ trFilter.endDate = 0
    /\ \E x \in CandidateRoots, y \in CandidateRoots :
           /\ RecordsFor(trDetails.at[x].iterationPath) = {}
           /\ trDetails.at[y].iterationPath = SprintV
           /\ {x, y} \subseteq Range(trRootNodes)

(***************************************************************************)
(* The filter after the context resolver                                   *)
(***************************************************************************)
\* getCurrentIterationContext has returned, with or without a failure
ContextResolved == UsesContext(callerFilter) /\ pc \notin {"start", "context"}

\* C22: when the context is used and the context resolver yields no path, the
\* cycle does not fail: the query is built with the 'iteration path is
\* non-empty' floor on roots and is executed.
C22_EmptyContextFallsBackToFloor ==
    (ContextResolved /\ effectiveFilter.iterationPaths = {}) =>
        /\ buildWorkItemTreeQuery(Project, rootLevel, effectiveFilter).clause = "nonEmpty"
        /\ Len(calls) >= 2
        /\ calls[2] = "wiql"
        /\ settled.kind = "rejected" =>
               \E call \in {"wiql", "workitems", "classification"} :
                   Faulted(call, ResponseKinds)

\* the classification tree has no dated iteration, the fetch was answered and
\* the query with the floor returned the roots
C22_Witness ==
    /\ ContextResolved
    /\ faults = {}
    /\ backend.tree.children = <<>>
    /\ effectiveFilter.iterationPaths = {}
    /\ pc = "workitems"
    /\ Len(relationRows) = Cardinality(WorkItemIds)

\* C28: a date range given by the caller together with
\* useCurrentIterationContext is kept in the effective filter whatever the
\* context resolver returns, with and without context paths.
C28_CallerRangeKept ==
    (ContextResolved /\ callerFilter.hasFilter) =>
        /\ effectiveFilter.startDate = callerFilter.startDate
        /\ effectiveFilter.endDate = callerFilter.endDate
(***************************************************************************)
(* Project scoping                                                         *)
(***************************************************************************)
\* the items of another project that the relation rows of the cycle mention
ForeignIds ==
    {id \in Range(CollectIds(<<>>, relationRows, 1)) :
        backend.items[id].project # Project}

\* C23: every work item at any depth of the returned tree belongs to the
\* requesting project; an item of another project is no node, no child and no
\* root, whatever relation rows mention it.
C23_OwnProjectOnly ==
    /\ \A id \in Range(detailsMap.order) : backend.items[id].project = Project
    /\ settled.kind = "resolved" =>
           \A w \in EmittedItems(settled.value) :
               backend.items[w.id].project = Project

\* a tree was returned although a relation row made an item of another project
\* with a resolvable iteration the child of one of the returned items
C23_Witness ==
    /\ pc = "done" /\ settled.kind = "resolved"
    /\ \E w \in EmittedItems(settled.value) :
           \E i \in 1..Len(relationRows) :
               /\ relationRows[i].source = w.id
               /\ relationRows[i].target \in ForeignIds
               /\ findIterationDates(backend.items[relationRows[i].target].iterationPath,
                                     Project, iterationIndex) # Undefined
(***************************************************************************)
(* Membership of the returned tree                                         *)
(***************************************************************************)
Resolves(id) ==
    findIterationDates(trDetails.at[id].iterationPath, Project, trIterationMap)
        # Undefined

\* the ids of the roots of the returned streams
ReturnedRootIds ==
    UNION {{TreeStreams[k].workItems[i].id : i \in 1..Len(TreeStreams[k].workItems)} :
              k \in 1..Len(TreeStreams)}

\* ids and what child links reach from them through resolvable nodes only
RECURSIVE ResolvableBelow(_)
ResolvableBelow(ids) ==
    LET more == ids \cup {c \in UNION {Range(trNodeMap.at[id].childIds) : id \in ids} :
                              Resolves(c)}
    IN  IF more = ids THEN ids ELSE ResolvableBelow(more)

EmittedIds == {w.id : w \in EmittedItems(TreeStreams)}

\* C24: a work item is in the returned tree if and only if child links lead to
\* it from a returned root through items whose iterations all resolve, the
\* item's own included; below an item whose iteration does not resolve nothing
\* is kept.
C24_ReachableAndResolvable ==
    trResult.kind = "resolved" => EmittedIds = ResolvableBelow(ReturnedRootIds)

\* a tree was returned without an item whose own iteration resolves, because
\* the iteration of its only parent, a child of a returned root, does not
C24_Witness ==
    /\ trPc = "assembled" /\ trResult.kind = "resolved"
    /\ \E r \in ReturnedRootIds, m, d \in DOMAIN trNodeMap.at :
           /\ m \in Range(trNodeMap.at[r].childIds) /\ ~Resolves(m)
           /\ d \in Range(trNodeMap.at[m].childIds) /\ Resolves(d)
           /\ d \notin EmittedIds /\ m \notin EmittedIds
(***************************************************************************)
(* Termination of the conversion                                           *)
(***************************************************************************)
\* C25: converting the roots finishes for every relation list that
\* buildTreeFromLinks accepts, cycles among the non-root nodes included: the
\* recursion over the children never exhausts the call stack.
C25_ConversionTerminates ==
    trPc = "assembled" => trResult # Rejected("RangeError")
(***************************************************************************)
(* What the hook shows, and how often one cycle calls the service          *)
(***************************************************************************)
\* C26: whenever the error of the hook is set, its data has no value streams:
\* the message of a failed cycle is never shown together with the data of a
\* cycle that succeeded.
C26_ErrorMeansNoData ==
    hkError # "null" => hkData.valueStreams = <<>>

\* C29: one fetch cycle calls the fetch function of the service at most once;
\* after a failed call no further call with other arguments is made.
C29_OneCallPerCycle ==
    \A i \in 1..Len(hkCycles) : hkCycles[i].attempt <= 1
(***************************************************************************)
(* Occurrences and counts in the returned tree                             *)
(***************************************************************************)
\* the roots of all returned streams, in order
RECURSIVE RootItems(_)
RootItems(streams) ==
    IF streams = <<>> THEN <<>>
    ELSE Head(streams).workItems \o RootItems(Tail(streams))

\* how often an id occurs in a list of emitted items and below them
RECURSIVE Occurrences(_, _)
Occurrences(workItems, id) ==
    IF workItems = <<>> THEN 0
    ELSE (IF Head(workItems).id = id THEN 1 ELSE 0)
         + Occurrences(Head(workItems).children, id)
         + Occurrences(Tail(workItems), id)

\* C27: every work-item id occurs at most once in the whole returned result,
\* over all streams and depths, and so at most once among the children of a
\* node, also when a relation is repeated or a node has two parents.
C27_EachItemOnce ==
    trResult.kind = "resolved" =>
        \A id \in WorkItemIds : Occurrences(RootItems(TreeStreams), id) <= 1

\* C30: for every returned node that has a child type, the emitted count is
\* the length of the emitted children list and the completed count does not
\* exceed it, also when children were dropped and when there are none.
C30_CountIsEmittedChildren ==
    \A w \in EmittedItems(TreeStreams) :
        getChildWorkItemType(w.workItemType) # "null" =>
            /\ w.count = Len(w.children)
            /\ w.completedCount <= w.count
====
